---- MODULE Spec2Model ----
(***************************************************************************)
(* wp-handbook-converter: the current CLI of src/cli.js (getAll and        *)
(* generateFiles, lines 124-254) as a state machine.                       *)
(*                                                                         *)
(* A JavaScript string is a sequence of one-character strings, so that     *)
(* String.prototype.split, the trailing-slash replace and path.join are    *)
(* computed character by character, as the program computes them.          *)
(*                                                                         *)
(* One step of the machine is what the single JavaScript thread runs       *)
(* between two awaits: the completion of the awaited operation, the        *)
(* synchronous code after it, and the issue of the next awaited            *)
(* operation.  The operations issued and not yet settled are inflight.     *)
(*                                                                         *)
(* Spec is generateFiles run once or twice; SpecPath is the path           *)
(* resolution on short strings; SpecRender is the filters of the           *)
(* renderer's rules and the language of a code block; SpecRoot is the      *)
(* determination of rootPath; SpecJson is the older program generateJson   *)
(* (src/cli.js lines 318-442, src/unnamed/part_000).                       *)
(***************************************************************************)
EXTENDS Integers, Sequences, FiniteSets, TLC

(***************************************************************************)
(* Bounds of the model.                                                    *)
(***************************************************************************)
\* longest remote collection
MaxItems == 3
\* items the server puts on one page (the program asks for per_page=100)
PerPage == 2
\* longest string drawn as link, slug or rootPath by the path specification
MaxLen == 3

(***************************************************************************)
(* String literals of the program.                                         *)
(***************************************************************************)
SLASH == <<"/">>
DOT == <<".">>
DOTDOT == <<".", ".">>
HTTPS == <<"h","t","t","p","s",":","/","/">>
WPORG == <<"w","o","r","d","p","r","e","s","s",".","o","r","g","/">>
WPJSON == <<"w","p","-","j","s","o","n","/","w","p","/","v","2","/">>
HANDBOOK == <<"h","a","n","d","b","o","o","k">>
MAKE == <<"m","a","k","e">>
WORG == <<"w",".","o","r","g">>
EN == <<"e","n","/">>
INDEX == <<"i","n","d","e","x">>
MD == <<".","m","d">>
DIGITS == <<"0","1","2","3","4","5","6","7","8","9">>

(***************************************************************************)
(* String operations of JavaScript used by the program.                    *)
(***************************************************************************)
Last(s) == s[Len(s)]
Front(s) == SubSeq(s, 1, Len(s) - 1)

\* first index >= i at which sub occurs in s, 0 when there is none
RECURSIVE IndexFrom(_, _, _)
IndexFrom(s, sub, i) ==
  IF i + Len(sub) - 1 > Len(s) THEN 0
  ELSE IF SubSeq(s, i, i + Len(sub) - 1) = sub THEN i
  ELSE IndexFrom(s, sub, i + 1)

\* the pieces of s from position i on, cut at each occurrence of sep
RECURSIVE SplitFrom(_, _, _)
SplitFrom(s, sep, i) ==
  LET j == IndexFrom(s, sep, i)
  IN  IF j = 0 THEN << SubSeq(s, i, Len(s)) >>
      ELSE << SubSeq(s, i, j - 1) >> \o SplitFrom(s, sep, j + Len(sep))

\* s.split(sep): an empty separator cuts s into its characters
Split(s, sep) ==
  IF sep = <<>> THEN [k \in 1..Len(s) |-> << s[k] >>]
  ELSE SplitFrom(s, sep, 1)

\* s.replace(/\/$/, ''): one trailing slash removed
TrimSlash(s) ==
  IF s # <<>> /\ Last(s) = "/" THEN Front(s) ELSE s

\* the value of one decimal digit character, -1 for any other character
DigitVal(c) ==
  IF \E d \in 1..10 : DIGITS[d] = c
  THEN (CHOOSE d \in 1..10 : DIGITS[d] = c) - 1
  ELSE -1

\* parseInt(s, 10) on the leading digits of s; nan when s starts with none
RECURSIVE ParseDigits(_, _)
ParseDigits(s, acc) ==
  IF s = <<>> \/ DigitVal(Head(s)) < 0 THEN acc
  ELSE ParseDigits(Tail(s), acc * 10 + DigitVal(Head(s)))

ParseInt(s) ==
  IF s = <<>> \/ DigitVal(Head(s)) < 0 THEN [nan |-> TRUE, val |-> 0]
  ELSE [nan |-> FALSE, val |-> ParseDigits(s, 0)]

\* String(n) of a natural number: what the server writes in the header and
\* what parseInt makes of a numeric argument before parsing it
RECURSIVE Decimal(_)
Decimal(n) ==
  IF n < 10 THEN << DIGITS[n + 1] >>
  ELSE Decimal(n \div 10) \o << DIGITS[(n % 10) + 1] >>

(***************************************************************************)
(* path.join and path.dirname on relative POSIX paths.  A normalised path  *)
(* is the sequence of its segments.                                        *)
(***************************************************************************)
RECURSIVE NormSegs(_, _)
NormSegs(segs, acc) ==
  IF segs = <<>> THEN acc
  ELSE LET h == Head(segs)
           t == Tail(segs)
       IN  IF h = <<>> \/ h = DOT THEN NormSegs(t, acc)
           ELSE IF h = DOTDOT
                THEN IF acc # <<>> /\ Last(acc) # DOTDOT
                     THEN NormSegs(t, Front(acc))
                     ELSE NormSegs(t, Append(acc, DOTDOT))
                ELSE NormSegs(t, Append(acc, h))

PathJoin(a, b) == NormSegs(Split(a \o SLASH \o b, SLASH), <<>>)

Dirname(p) == IF p = <<>> THEN <<>> ELSE Front(p)

\* p lies strictly below directory d
Below(p, d) == Len(p) > Len(d) /\ SubSeq(p, 1, Len(d)) = d

\* d and every directory above it: what mkdir(d, {recursive: true}) makes
Ancestors(d) == { SubSeq(d, 1, k) : k \in 1..Len(d) }

(***************************************************************************)
(* Option defaults of generateFiles.  An option that was not given, like   *)
(* an empty one, is falsy: both are the empty string here.                 *)
(***************************************************************************)
NormTeam(team) == IF team # <<>> THEN team \o SLASH ELSE <<>>

NormHandbook(handbook) == IF handbook # <<>> THEN handbook ELSE HANDBOOK

NormSubdomain(subdomain) ==
  (IF subdomain # <<>>
   THEN (IF subdomain = WORG THEN <<>> ELSE subdomain)
   ELSE MAKE) \o DOT

NormOutputDir(outputDir) == IF outputDir # <<>> THEN outputDir ELSE EN

\* the collection endpoint
Url(o) ==
  HTTPS \o NormSubdomain(o.subdomain) \o WPORG \o NormTeam(o.team)
        \o WPJSON \o NormHandbook(o.handbook)

\* rootPath when the collection has no usable root item
FallbackRoot(o) ==
  HTTPS \o NormSubdomain(o.subdomain) \o WPORG \o NormTeam(o.team)
        \o NormHandbook(o.handbook) \o SLASH

\* the output directory as a normalised path
OutDir(o) == NormSegs(Split(NormOutputDir(o.outputDir), SLASH), <<>>)

(***************************************************************************)
(* The remote collection.  An item is known by its identifier; Items gives *)
(* the attributes the program reads: parent, link, slug, title.rendered    *)
(* and content.rendered.                                                   *)
(***************************************************************************)
LinkRoot == <<"h","t","t","p","s",":","/","/","x","/","t","e","a","m","/","h","b","/">>
SlugRoot == <<"h","b">>
LinkChild == <<"h","t","t","p","s",":","/","/","x","/","t","e","a","m","/","h","b","/","s","u","b","-","p","a","g","e","/">>
SlugChild == <<"s","u","b","-","p","a","g","e">>
LinkAlien == <<"h","t","t","p","s",":","/","/","y","/","h","b","/">>
LinkUp == <<"h","t","t","p","s",":","/","/","x","/","t","e","a","m","/",".",".","/","u","p","/">>
SlugUp == <<"u","p">>

\* 1: a root page; 2: a page below it; 3: a page of another site that has
\* the root's slug; 4: a page whose link climbs out of the root
Items ==
  << [parent |-> 0, link |-> LinkRoot, slug |-> SlugRoot,
      title |-> "Handbook", content |-> "<p>welcome</p>"],
     [parent |-> 1, link |-> LinkChild, slug |-> SlugChild,
      title |-> "Sub page", content |-> "<p>sub</p>"],
     [parent |-> 1, link |-> LinkAlien, slug |-> SlugRoot,
      title |-> "Alien", content |-> "<p>alien</p>"],
     [parent |-> 1, link |-> LinkUp, slug |-> SlugUp,
      title |-> "Up", content |-> "<p>up</p>"] >>

ItemIds == DOMAIN Items

RECURSIVE SeqsUpTo(_, _)
SeqsUpTo(S, n) ==
  IF n = 0 THEN { <<>> }
  ELSE LET shorter == SeqsUpTo(S, n - 1)
       IN  shorter \cup { Append(q, x) : q \in shorter, x \in S }

\* the collections the server may hold: every item once at most, in any order
Collections ==
  { q \in SeqsUpTo(ItemIds, MaxItems) :
      \A i, j \in 1..Len(q) : q[i] = q[j] => i = j }

\* the server's paging of a collection
NumPages(ps) == (Len(ps) + PerPage - 1) \div PerPage

Min(a, b) == IF a <= b THEN a ELSE b

PageBody(ps, k) == SubSeq(ps, (k - 1) * PerPage + 1, Min(k * PerPage, Len(ps)))

\* the x-wp-totalpages header of a response
TotalPagesHeader(ps) == Decimal(NumPages(ps))

RECURSIVE ConcatPages(_, _)
ConcatPages(ps, k) ==
  IF k = 0 THEN <<>> ELSE ConcatPages(ps, k - 1) \o PageBody(ps, k)

(***************************************************************************)
(* Path resolution and rendering of generateFiles.                         *)
(***************************************************************************)
\* the items of a collection of identifiers
Recs(ps) == [i \in 1..Len(ps) |-> Items[ps[i]]]

\* allPosts.find((item) => parseInt(item.parent) === 0): its index, or 0
RECURSIVE FindRoot(_, _)
FindRoot(its, i) ==
  IF i > Len(its) THEN 0
  ELSE IF ParseInt(Decimal(its[i].parent)).val = 0 THEN i
  ELSE FindRoot(its, i + 1)

\* RootOfItem with the slug left in: the root item's own link as rootPath
RootOfItemWhole(link, slug) == link

\* rootItem.link.split(rootItem.slug)[0]
RootOfItem(link, slug) == Split(link, slug)[1]

\* rootPath of a collection of items
RootPath(its, o) ==
  LET r == FindRoot(its, 1)
  IN  IF r # 0 /\ its[r].link # <<>> /\ its[r].slug # <<>>
      THEN RootOfItem(its[r].link, its[r].slug)
      ELSE FallbackRoot(o)

\* itemPath of one item
ItemPath(link, slug, rootPath) ==
  LET parts == Split(link, rootPath)
      pathSegment == IF Len(parts) >= 2 THEN parts[2] ELSE slug
      trimmed == TrimSlash(pathSegment)
  IN  IF trimmed = <<>> THEN INDEX ELSE trimmed

\* the HTML to markdown conversion of the turndown library: a function of
\* the HTML alone
Turndown(html) == << "markdown of", html >>

\* `# ${item.title.rendered}\n\n${markdownContent}`, kept as its parts
Markdown(id) ==
  << "# ", Items[id].title, "\n\n", Turndown(Items[id].content) >>

\* the options generateFiles is run with
DefaultOpts(r) ==
  [team |-> <<>>, handbook |-> <<>>, subdomain |-> <<>>, outputDir |-> <<>>,
   regenerate |-> r]

RunOptions == { DefaultOpts(r) : r \in BOOLEAN }

\* finalPath of the i-th item of collection ps, as lines 213-223 compute it
FinalPathOf(ps, o, i) ==
  PathJoin(NormOutputDir(o.outputDir),
           ItemPath(Items[ps[i]].link, Items[ps[i]].slug, RootPath(Recs(ps), o)) \o MD)

\* the same for every collection and every options of a run, computed once
FinalPaths ==
  [ps \in Collections |->
    [o \in RunOptions |-> [i \in 1..Len(ps) |-> FinalPathOf(ps, o, i)]]]

\* finalPath of the i-th item of collection ps
FinalPath(ps, o, i) == FinalPaths[ps][o][i]

DirForFile(ps, o, i) == Dirname(FinalPath(ps, o, i))

(***************************************************************************)
(* State.                                                                  *)
(***************************************************************************)
VARIABLES
  opts,        \* the options of the run: team, handbook, subdomain, outputDir, regenerate
  posts,       \* the remote collection, unchanged during the runs
  files,       \* the file system: path |-> content of every file
  dirs,        \* the file system: the directories (the working directory always is)
  pc,          \* "init", "running", "done", "failed" (an error reached the caller), "exit1"
  inflight,    \* the operations issued and not yet settled
  requests,    \* getAll: the pages requested so far, in order
  results,     \* getAll: results
  totalPages,  \* getAll: totalPages
  allPosts,    \* generateFiles: allPosts
  fetched,     \* getAll has returned
  trace,       \* the operations settled in this run, with how each settled
  outcomes,    \* what the run reported per item: Created, Updated or Skipped
  prior,       \* the item in work: what its target file held when its turn began
  files0,      \* files when the run began
  dirs0,       \* dirs when the run began
  second,      \* this is the second of two runs
  faults,      \* environment faults injected so far
  pin,         \* path specification: the input drawn
  pout         \* path specification: the result computed

vars ==
  << opts, posts, files, dirs, pc, inflight, requests, results, totalPages,
     allPosts, fetched, trace, outcomes, prior, files0, dirs0, second,
     faults, pin, pout >>

runVars ==
  << opts, posts, files, dirs, pc, inflight, requests, results, totalPages,
     allPosts, fetched, trace, outcomes, prior, files0, dirs0, second,
     faults >>

\* most environment faults (failed requests, I/O errors the file system
\* does not force) injected in one behaviour
MaxFaults == 1

NOFILE == << "no such file" >>
STALE == << "stale" >>
NAN == [nan |-> TRUE, val |-> 0]

Op(kind, n) == [op |-> kind, n |-> n]
Ev(kind, n, res) == [op |-> kind, n |-> n, res |-> res]

\* what path p holds in file system f
Content(f, p) == IF p \in DOMAIN f THEN f[p] ELSE NOFILE

DirExists(d, p) == p = <<>> \/ p \in d

\* writeFile(p, doc) settled successfully
Written(f, p, doc) == [q \in DOMAIN f \cup {p} |-> IF q = p THEN doc ELSE f[q]]

\* rm(d, {recursive: true, force: true}) settled successfully
FilesAfterRm(f, d) == [q \in { x \in DOMAIN f : ~Below(x, d) } |-> f[q]]
DirsAfterRm(ds, d) == { x \in ds : x # d /\ ~Below(x, d) }

(***************************************************************************)
(* Initial states: the options, the remote collection and the output       *)
(* directory the run finds.                                                *)
(***************************************************************************)
HbFile == PathJoin(EN, SlugRoot \o MD)
OldFile == PathJoin(EN, <<"o","l","d">> \o MD)

InitialFiles ==
  { [p \in (IF hb = NOFILE THEN {} ELSE {HbFile})
             \cup (IF old = NOFILE THEN {} ELSE {OldFile})
       |-> IF p = HbFile THEN hb ELSE old] :
    hb \in {NOFILE, Markdown(1), STALE}, old \in {NOFILE, STALE} }

NoPathInput == [kind |-> "none"]

InitRun ==
  /\ opts \in RunOptions
  /\ posts \in Collections
  /\ files \in InitialFiles
  /\ \E made \in BOOLEAN :
       dirs = (IF made \/ DOMAIN files # {} THEN Ancestors(OutDir(opts)) ELSE {})
  /\ pc = "init"
  /\ inflight = {}
  /\ requests = <<>>
  /\ results = <<>>
  /\ totalPages = NAN
  /\ allPosts = <<>>
  /\ fetched = FALSE
  /\ trace = <<>>
  /\ outcomes = <<>>
  /\ prior = NOFILE
  /\ files0 = files
  /\ dirs0 = dirs
  /\ second = FALSE
  /\ faults = 0

Init ==
  /\ InitRun
  /\ pin = NoPathInput
  /\ pout = <<>>

(***************************************************************************)
(* The environment: how an awaited operation may settle.  natural is what  *)
(* the file system or the server answers when nothing goes wrong; the      *)
(* others are faults, injected while the fault budget lasts.               *)
(***************************************************************************)
Settles(natural, others) ==
  {natural} \cup (IF faults < MaxFaults THEN others \ {natural} ELSE {})

Charge(natural, res) ==
  faults' = IF res = natural THEN faults ELSE faults + 1

\* readFile of path p: its content, or ENOENT when there is no such file
ReadNatural(p) == IF p \in DOMAIN files THEN "ok" ELSE "ENOENT"

\* writeFile of path p: done, or ENOENT when its directory is missing
WriteNatural(p) == IF DirExists(dirs, Dirname(p)) THEN "ok" ELSE "ENOENT"

cfgVars == << opts, posts, second, files0, dirs0 >>
pathVars == << pin, pout >>
fetchVars == << requests, results, totalPages, allPosts, fetched >>
itemVars == << outcomes, prior >>

\* the awaited operation o settles with res
Settle(o, res) == trace' = Append(trace, Ev(o.op, o.n, res))

\* the error of operation o leaves generateFiles: its promise rejects
Throw(o) ==
  /\ pc' = "failed"
  /\ inflight' = inflight \ {o}

\* await o has returned and the code runs on to await next
Await(o, next) == inflight' = (inflight \ {o}) \cup {next}

(***************************************************************************)
(* generateFiles, lines 165-197: options, regenerate, output directory.    *)
(***************************************************************************)
\* Begin with rm not awaited: mkdir is issued while rm is in flight
BeginNoAwait ==
  inflight' = inflight \cup
    (IF opts.regenerate THEN {Op("rm", 0), Op("mkdirOut", 0)}
     ELSE {Op("mkdirOut", 0)})

\* Begin with the test of regenerate lost: the directory is always removed
BeginAlwaysRm ==
  inflight' = inflight \cup { Op("rm", 0) }

\* Begin with regenerate forgotten: the directory is never removed
BeginSkipRm ==
  inflight' = inflight \cup { Op("mkdirOut", 0) }

\* lines 172-185, up to the first await
Begin ==
  inflight' = inflight \cup
    { IF opts.regenerate THEN Op("rm", 0) ELSE Op("mkdirOut", 0) }

Start ==
  /\ pc = "init"
  /\ pc' = "running"
  /\ Begin
  /\ UNCHANGED << cfgVars, pathVars, fetchVars, itemVars, files, dirs,
                  trace, faults >>

\* line 181 settles; line 185 is issued
RmDone ==
  LET o == Op("rm", 0) IN
  /\ pc = "running"
  /\ o \in inflight
  /\ \E res \in Settles("ok", {"EOTHER"}) :
       /\ Settle(o, res)
       /\ Charge("ok", res)
       /\ IF res = "ok"
          THEN /\ files' = FilesAfterRm(files, OutDir(opts))
               /\ dirs' = DirsAfterRm(dirs, OutDir(opts))
               /\ Await(o, Op("mkdirOut", 0))
               /\ pc' = pc
          ELSE /\ Throw(o)
               /\ UNCHANGED << files, dirs >>
  /\ UNCHANGED << cfgVars, pathVars, fetchVars, itemVars >>

\* MkdirOutFailed with the error only logged: the run goes on to the fetch
MkdirOutFailedLogged(o) ==
  /\ pc' = pc
  /\ Await(o, Op("fetch", 1))
  /\ requests' = Append(requests, 1)
  /\ dirs' = dirs

\* the catch clause of lines 187-192: the error is logged and thrown again
MkdirOutFailed(o) ==
  /\ Throw(o)
  /\ UNCHANGED << dirs, requests >>

\* line 185 settles; lines 186-197 and 125-127 run, page 1 is requested
MkdirOutDone ==
  LET o == Op("mkdirOut", 0) IN
  /\ pc = "running"
  /\ o \in inflight
  /\ \E res \in Settles("ok", {"ENOENT", "EOTHER"}) :
       /\ Settle(o, res)
       /\ Charge("ok", res)
       /\ IF res = "ok"
          THEN /\ dirs' = dirs \cup Ancestors(OutDir(opts))
               /\ Await(o, Op("fetch", 1))
               /\ requests' = Append(requests, 1)
               /\ pc' = pc
          ELSE MkdirOutFailed(o)
  /\ UNCHANGED << cfgVars, pathVars, itemVars, files, results, totalPages,
                  allPosts, fetched >>

(***************************************************************************)
(* getAll, lines 124-163.                                                  *)
(***************************************************************************)
\* MorePages with the loop bound off by one: page < totalPages
MorePagesSkipLast(n, tp) ==
  IF n = 1 THEN ~tp.nan /\ tp.val > 2
  ELSE ~tp.nan /\ n + 1 < tp.val

\* after the body of page n: is page n + 1 requested?  (lines 145, 146)
MorePages(n, tp) ==
  IF n = 1 THEN ~tp.nan /\ tp.val > 1
  ELSE ~tp.nan /\ n + 1 <= tp.val

\* Returned without the check of lines 199-202: an empty collection is
\* looped over like any other, and generateFiles returns
ReturnedNoExit(o, ps) ==
  /\ allPosts' = ps
  /\ fetched' = TRUE
  /\ IF Len(ps) = 0
     THEN /\ pc' = "done"
          /\ inflight' = inflight \ {o}
          /\ prior' = prior
     ELSE /\ pc' = pc
          /\ inflight' = (inflight \ {o}) \cup {Op("mkdir", 1)}
          /\ prior' = Content(files, FinalPath(ps, opts, 1))

\* lines 197-227 once getAll has returned ps, up to the next await
Returned(o, ps) ==
  /\ allPosts' = ps
  /\ fetched' = TRUE
  /\ IF Len(ps) = 0
     THEN /\ pc' = "exit1"
          /\ inflight' = inflight \ {o}
          /\ prior' = prior
     ELSE /\ pc' = pc
          /\ Await(o, Op("mkdir", 1))
          /\ prior' = Content(files, FinalPath(ps, opts, 1))

\* FetchFailed with a retry: the page that failed is requested again
FetchFailedRetry(o) ==
  /\ pc' = pc
  /\ inflight' = (inflight \ {o}) \cup {o}
  /\ requests' = Append(requests, o.n)
  /\ UNCHANGED << results, totalPages >>

\* the response is not ok, or fetch rejected (lines 133-136, 153-156): the
\* error leaves getAll and generateFiles, and results goes with the frame
FetchFailed(o) ==
  /\ Throw(o)
  /\ results' = <<>>
  /\ totalPages' = NAN
  /\ requests' = requests

\* a fetch settles (lines 127-141, 148-156); the body is asked for
FetchDone ==
  /\ pc = "running"
  /\ \E o \in inflight :
       /\ o.op = "fetch"
       /\ \E res \in Settles("ok", {"notok", "neterr"}) :
            /\ Settle(o, res)
            /\ Charge("ok", res)
            /\ IF res = "ok"
               THEN /\ totalPages' =
                         IF o.n = 1 THEN ParseInt(TotalPagesHeader(posts))
                         ELSE totalPages
                    /\ Await(o, Op("json", o.n))
                    /\ pc' = pc
                    /\ UNCHANGED << results, requests >>
               ELSE FetchFailed(o)
  /\ UNCHANGED << cfgVars, pathVars, itemVars, files, dirs, allPosts, fetched >>

\* response.json() settles (lines 142-162): the page is appended, and the
\* next page is requested or getAll returns
JsonDone ==
  /\ pc = "running"
  /\ \E o \in inflight :
       /\ o.op = "json"
       /\ \E res \in Settles("ok", {"EOTHER"}) :
            /\ Settle(o, res)
            /\ Charge("ok", res)
            /\ IF res = "ok"
               THEN LET rs == results \o PageBody(posts, o.n) IN
                    /\ results' = rs
                    /\ IF MorePages(o.n, totalPages)
                       THEN /\ Await(o, Op("fetch", o.n + 1))
                            /\ requests' = Append(requests, o.n + 1)
                            /\ pc' = pc
                            /\ UNCHANGED << allPosts, fetched, prior >>
                       ELSE /\ Returned(o, rs)
                            /\ requests' = requests
               ELSE /\ Throw(o)
                    /\ results' = <<>>
                    /\ UNCHANGED << requests, allPosts, fetched, prior >>
  /\ UNCHANGED << cfgVars, pathVars, files, dirs, totalPages, outcomes >>

(***************************************************************************)
(* generateFiles, lines 212-253: the loop over allPosts.                   *)
(***************************************************************************)
\* item i is done with outcome oc and the file system holds nf: the loop
\* goes on to item i + 1 (lines 213-227), or generateFiles returns
Finish(o, oc, nf) ==
  /\ outcomes' = Append(outcomes,
       [item |-> o.n, path |-> FinalPath(allPosts, opts, o.n),
        outcome |-> oc, prior |-> prior])
  /\ IF o.n < Len(allPosts)
     THEN /\ Await(o, Op("mkdir", o.n + 1))
          /\ prior' = Content(nf, FinalPath(allPosts, opts, o.n + 1))
          /\ pc' = pc
     ELSE /\ inflight' = inflight \ {o}
          /\ prior' = NOFILE
          /\ pc' = "done"

\* Catch without the test of e.code: every error is taken for a missing file
CatchAll(o, res) ==
  /\ inflight' = (inflight \ {o}) \cup {Op("cwrite", o.n)}
  /\ pc' = pc

\* the catch clause of lines 240-251 on an error of operation o with code res
Catch(o, res) ==
  IF res = "ENOENT"
  THEN /\ Await(o, Op("cwrite", o.n))
       /\ pc' = pc
  ELSE Throw(o)

\* line 227 settles
MkdirItemDone ==
  /\ pc = "running"
  /\ \E o \in inflight :
       /\ o.op = "mkdir"
       /\ \E res \in Settles("ok", {"ENOENT", "EOTHER"}) :
            /\ Settle(o, res)
            /\ Charge("ok", res)
            /\ IF res = "ok"
               THEN /\ dirs' = dirs \cup Ancestors(DirForFile(allPosts, opts, o.n))
                    /\ Await(o, Op("read", o.n))
                    /\ pc' = pc
               ELSE /\ Catch(o, res)
                    /\ dirs' = dirs
  /\ UNCHANGED << cfgVars, pathVars, fetchVars, itemVars, files >>

\* Unchanged with the comparison lost: every existing file is rewritten
UnchangedNever(existingContent, markdown) == FALSE

\* Unchanged with the comparison lost the other way: a file that exists is
\* never written
UnchangedAlways(existingContent, markdown) == TRUE

\* line 229: existingContent === markdown
Unchanged(existingContent, markdown) == existingContent = markdown

\* line 228 settles; lines 229-239
ReadDone ==
  /\ pc = "running"
  /\ \E o \in inflight :
       /\ o.op = "read"
       /\ LET p == FinalPath(allPosts, opts, o.n) IN
          \E res \in Settles(ReadNatural(p), {"EOTHER"}) :
            /\ Settle(o, res)
            /\ Charge(ReadNatural(p), res)
            /\ IF res = "ok"
               THEN IF Unchanged(files[p], Markdown(allPosts[o.n]))
                    THEN Finish(o, "Skipped", files)
                    ELSE /\ Await(o, Op("write", o.n))
                         /\ pc' = pc
                         /\ UNCHANGED itemVars
               ELSE /\ Catch(o, res)
                    /\ UNCHANGED itemVars
  /\ UNCHANGED << cfgVars, pathVars, fetchVars, files, dirs >>

\* line 235 settles; line 238
WriteDone ==
  /\ pc = "running"
  /\ \E o \in inflight :
       /\ o.op = "write"
       /\ LET p == FinalPath(allPosts, opts, o.n) IN
          \E res \in Settles(WriteNatural(p), {"ENOENT", "EOTHER"}) :
            /\ Settle(o, res)
            /\ Charge(WriteNatural(p), res)
            /\ IF res = "ok"
               THEN /\ files' = Written(files, p, Markdown(allPosts[o.n]))
                    /\ Finish(o, "Updated", files')
               ELSE /\ Catch(o, res)
                    /\ UNCHANGED << itemVars, files >>
  /\ UNCHANGED << cfgVars, pathVars, fetchVars, dirs >>

\* line 242 settles; line 245.  An error here is outside the try block.
CatchWriteDone ==
  /\ pc = "running"
  /\ \E o \in inflight :
       /\ o.op = "cwrite"
       /\ LET p == FinalPath(allPosts, opts, o.n) IN
          \E res \in Settles(WriteNatural(p), {"ENOENT", "EOTHER"}) :
            /\ Settle(o, res)
            /\ Charge(WriteNatural(p), res)
            /\ IF res = "ok"
               THEN /\ files' = Written(files, p, Markdown(allPosts[o.n]))
                    /\ Finish(o, "Created", files')
               ELSE /\ Throw(o)
                    /\ UNCHANGED << itemVars, files >>
  /\ UNCHANGED << cfgVars, pathVars, fetchVars, dirs >>

(***************************************************************************)
(* The command is run a second time, on what the first run left.           *)
(***************************************************************************)
Rerun ==
  /\ pc = "done"
  /\ ~second
  /\ second' = TRUE
  /\ pc' = "running"
  /\ Begin
  /\ requests' = <<>>
  /\ results' = <<>>
  /\ totalPages' = NAN
  /\ allPosts' = <<>>
  /\ fetched' = FALSE
  /\ trace' = <<>>
  /\ outcomes' = <<>>
  /\ prior' = NOFILE
  /\ files0' = files
  /\ dirs0' = dirs
  /\ UNCHANGED << opts, posts, files, dirs, faults, pathVars >>

Next ==
  \/ Start
  \/ RmDone
  \/ MkdirOutDone
  \/ FetchDone
  \/ JsonDone
  \/ MkdirItemDone
  \/ ReadDone
  \/ WriteDone
  \/ CatchWriteDone
  \/ Rerun

Spec == Init /\ [][Next]_vars

(***************************************************************************)
(* The path specification: path resolution (lines 204-218) applied to      *)
(* links, slugs and root paths drawn from all short strings.  The run      *)
(* variables rest.                                                         *)
(***************************************************************************)
Strings == SeqsUpTo({"a", "/"}, MaxLen)

\* a root item with link pre + slug + "/" and an item right below it
PairOf(pre, slug, cslug) ==
  << [parent |-> 0, link |-> pre \o slug \o SLASH, slug |-> slug],
     [parent |-> 1, link |-> pre \o slug \o SLASH \o cslug \o SLASH,
      slug |-> cslug] >>

\* the example of the specification's section 8
ExamplePair ==
  PairOf(<<"h","t","t","p","s",":","/","/","x","/","t","e","a","m","/">>,
         SlugRoot, SlugChild)

PathInputs ==
  { [kind |-> "item", link |-> l, slug |-> g, rootPath |-> r] :
      l \in Strings, g \in Strings, r \in Strings }
  \cup
  { [kind |-> "pair", items |-> its] :
      its \in { PairOf(pre, g, c) : pre \in Strings, g \in Strings, c \in Strings }
              \cup { ExamplePair } }

InitPath ==
  /\ pin \in PathInputs
  /\ pout = <<>>
  /\ opts = DefaultOpts(FALSE)
  /\ posts = <<>>
  /\ files = <<>>
  /\ dirs = {}
  /\ pc = "idle"
  /\ inflight = {}
  /\ requests = <<>>
  /\ results = <<>>
  /\ totalPages = NAN
  /\ allPosts = <<>>
  /\ fetched = FALSE
  /\ trace = <<>>
  /\ outcomes = <<>>
  /\ prior = NOFILE
  /\ files0 = <<>>
  /\ dirs0 = {}
  /\ second = FALSE
  /\ faults = 0

\* lines 213-218 for one item under a given rootPath
ResolveItem ==
  /\ pin.kind = "item"
  /\ pout = <<>>
  /\ pout' = << ItemPath(pin.link, pin.slug, pin.rootPath) >>
  /\ UNCHANGED << pin, runVars >>

\* lines 204-218 for a collection: rootPath, then every item's path
ResolveAll ==
  /\ pin.kind = "pair"
  /\ pout = <<>>
  /\ pout' = [i \in 1..Len(pin.items) |->
                ItemPath(pin.items[i].link, pin.items[i].slug,
                         RootPath(pin.items, opts))]
  /\ UNCHANGED << pin, runVars >>

NextPath == ResolveItem \/ ResolveAll

SpecPath == InitPath /\ [][NextPath]_vars

(***************************************************************************)
(* The renderer's rewrite rules, lines 13-20 and 47-122: the filters of    *)
(* the four rules and the language of a code block, on elements given by   *)
(* node name and class attribute.                                          *)
(***************************************************************************)
\* most class names in the class attribute of an element drawn
MaxTokens == 3

BRUSH == <<"b","r","u","s","h",":">>
GLOSSARY == <<"g","l","o","s","s","a","r","y","-","i","t","e","m","-","h","i","d","d","e","n","-","c","o","n","t","e","n","t">>
SHOWSRC == <<"s","h","o","w","-","c","o","m","p","l","e","t","e","-","s","o","u","r","c","e">>
LESSSRC == <<"l","e","s","s","-","c","o","m","p","l","e","t","e","-","s","o","u","r","c","e">>
CSS == <<"c","s","s">>
BASH == <<"b","a","s","h">>
PHP == <<"p","h","p">>
YAML == <<"y","a","m","l">>
XML == <<"x","m","l">>
JSCRIPT == <<"j","s","c","r","i","p","t">>
JAVASCRIPT == <<"j","a","v","a","s","c","r","i","p","t">>
SPACE == <<" ">>
UNDEFINED == <<"undefined">>

\* the mapping of lines 13-20, in the order of Object.keys
codeLanguages ==
  << [key |-> CSS, value |-> CSS],
     [key |-> BASH, value |-> BASH],
     [key |-> PHP, value |-> PHP],
     [key |-> YAML, value |-> YAML],
     [key |-> XML, value |-> XML],
     [key |-> JSCRIPT, value |-> JAVASCRIPT] >>

\* s.includes(sub)
Includes(s, sub) == IndexFrom(s, sub, 1) # 0

\* getAttribute('class') of a node: null and '' are both falsy, and both
\* are the empty string here
GlossaryFilter(node) ==
  IF node.class # <<>> THEN node.class = GLOSSARY ELSE FALSE

CodeTriggerAnchorFilter(node) ==
  IF node.class # <<>>
  THEN Includes(node.class, SHOWSRC) \/ Includes(node.class, LESSSRC)
  ELSE FALSE

DtToStrongFilter(node) == node.nodeName = "DT"

PrecodeFilter(node) ==
  node.nodeName = "PRE" /\ node.class # <<>> /\ Includes(node.class, BRUSH)

\* the names of the rules whose filter accepts the node
MatchingRules(node) ==
  (IF GlossaryFilter(node) THEN {"glossary"} ELSE {})
  \cup (IF CodeTriggerAnchorFilter(node) THEN {"code-trigger-anchor"} ELSE {})
  \cup (IF DtToStrongFilter(node) THEN {"dt-to-strong"} ELSE {})
  \cup (IF PrecodeFilter(node) THEN {"precode to code"} ELSE {})

\* the reduce of lines 96-104 from the k-th key on
RECURSIVE ReduceLanguages(_, _, _)
ReduceLanguages(classList, k, currentLanguage) ==
  IF k > Len(codeLanguages) THEN currentLanguage
  ELSE ReduceLanguages(classList, k + 1,
         IF Includes(classList, codeLanguages[k].key)
         THEN codeLanguages[k].value
         ELSE currentLanguage)

CodeLanguage(classList) == ReduceLanguages(classList, 1, UNDEFINED)

\* codeLanguage ?? '' of line 118: what follows the opening fence
FenceTag(classList) ==
  IF CodeLanguage(classList) = UNDEFINED THEN <<>> ELSE CodeLanguage(classList)

\* the class names an element of a handbook page may carry
ClassTokens ==
  << BRUSH, GLOSSARY, SHOWSRC, LESSSRC, CSS, BASH, PHP, YAML, XML, JSCRIPT,
     <<"x">> >>

\* class names joined by blanks into one class attribute
RECURSIVE JoinTokens(_)
JoinTokens(q) ==
  IF q = <<>> THEN <<>>
  ELSE IF Len(q) = 1 THEN ClassTokens[q[1]]
  ELSE ClassTokens[q[1]] \o SPACE \o JoinTokens(Tail(q))

ClassAttributes ==
  { JoinTokens(q) : q \in SeqsUpTo(DOMAIN ClassTokens, MaxTokens) }

NodeNames == {"DT", "PRE", "SPAN", "A"}

RenderInputs ==
  { [kind |-> "element", nodeName |-> nn, class |-> c] :
      nn \in NodeNames, c \in ClassAttributes }

InitRender ==
  /\ pin \in RenderInputs
  /\ pout = <<>>
  /\ opts = DefaultOpts(FALSE)
  /\ posts = <<>>
  /\ files = <<>>
  /\ dirs = {}
  /\ pc = "idle"
  /\ inflight = {}
  /\ requests = <<>>
  /\ results = <<>>
  /\ totalPages = NAN
  /\ allPosts = <<>>
  /\ fetched = FALSE
  /\ trace = <<>>
  /\ outcomes = <<>>
  /\ prior = NOFILE
  /\ files0 = <<>>
  /\ dirs0 = {}
  /\ second = FALSE
  /\ faults = 0

\* the filters of the four rules are asked about the element
MatchRules ==
  /\ pin.kind = "element"
  /\ pout = <<>>
  /\ pout' = << MatchingRules(pin) >>
  /\ UNCHANGED << pin, runVars >>

\* the replacement of 'precode to code' runs on an element its filter took
PrecodeReplacement ==
  /\ pin.kind = "element"
  /\ Len(pout) = 1
  /\ "precode to code" \in pout[1]
  /\ pout' = Append(pout, FenceTag(pin.class))
  /\ UNCHANGED << pin, runVars >>

NextRender == MatchRules \/ PrecodeReplacement

SpecRender == InitRender /\ [][NextRender]_vars

(***************************************************************************)
(* The root specification: the determination of rootPath (lines 172-176    *)
(* and 204-210) on short collections of items whose link ends, as the      *)
(* links of the server do, with the item's slug and "/".                   *)
(***************************************************************************)
\* an item with parent par and link pre + slug + "/"
LinkedItem(par, pre, slug) ==
  [parent |-> par, link |-> pre \o slug \o SLASH, slug |-> slug]

RootItems ==
  { LinkedItem(par, pre, slug) :
      par \in {0, 1},
      pre \in SeqsUpTo({"a", "/"}, MaxLen - 1),
      slug \in SeqsUpTo({"a"}, MaxLen - 1) \ { <<>> } }

\* the collections that reach line 204: they are not empty
RootCollections ==
  { << a >> : a \in RootItems } \cup { << a, b >> : a \in RootItems, b \in RootItems }

RootOptions ==
  { [team |-> t, handbook |-> h, subdomain |-> d, outputDir |-> <<>>,
     regenerate |-> FALSE] :
      t \in { <<>>, <<"t">> }, h \in { <<>>, <<"h">> }, d \in { <<>>, WORG } }

InitRoot ==
  /\ pin \in { [kind |-> "collection", items |-> its] : its \in RootCollections }
  /\ pout = <<>>
  /\ opts \in RootOptions
  /\ posts = <<>>
  /\ files = <<>>
  /\ dirs = {}
  /\ pc = "idle"
  /\ inflight = {}
  /\ requests = <<>>
  /\ results = <<>>
  /\ totalPages = NAN
  /\ allPosts = <<>>
  /\ fetched = FALSE
  /\ trace = <<>>
  /\ outcomes = <<>>
  /\ prior = NOFILE
  /\ files0 = <<>>
  /\ dirs0 = {}
  /\ second = FALSE
  /\ faults = 0

\* lines 204-210: rootPath of the collection received
DetermineRoot ==
  /\ pin.kind = "collection"
  /\ pout = <<>>
  /\ pout' = << RootPath(pin.items, opts) >>
  /\ UNCHANGED << pin, runVars >>

NextRoot == DetermineRoot

SpecRoot == InitRoot /\ [][NextRoot]_vars

(***************************************************************************)
(* The older program generateJson, lines 318-442 of src/cli.js ("cli.js")  *)
(* and lines 30-134 of src/unnamed/part_000 ("part_000"); pin tells which  *)
(* of the two runs.  del is called and not awaited, and the file reads and *)
(* writes are callbacks nobody waits for: the operations in flight settle  *)
(* in any order.                                                           *)
(***************************************************************************)
Programs == {"cli.js", "part_000"}

\* outputDir ? outputDir.replace(/\/$/, '') + '/' : 'en/'
JsonOutputDir(outputDir) ==
  IF outputDir # <<>> THEN TrimSlash(outputDir) \o SLASH ELSE EN

\* the directory `${outputDir}/` as the file system resolves it
JsonOutDir(o) ==
  NormSegs(Split(JsonOutputDir(o.outputDir) \o SLASH, SLASH), <<>>)

\* `https://${subdomain}wordpress.org/${team}/${handbook}/`
JsonFallbackRoot(o) ==
  HTTPS \o NormSubdomain(o.subdomain) \o WPORG \o o.team \o SLASH
        \o NormHandbook(o.handbook) \o SLASH

\* the loop of lines 364-372 from item i on, rootPath being what the items
\* before i left
RECURSIVE JsonRootFrom(_, _, _, _)
JsonRootFrom(its, o, i, rootPath) ==
  IF i > Len(its) THEN rootPath
  ELSE IF ParseInt(Decimal(its[i].parent)).val = 0
       THEN Split(its[i].link, its[i].slug)[1]
       ELSE JsonRootFrom(its, o, i + 1, JsonFallbackRoot(o))

JsonRootPath(its, o) == JsonRootFrom(its, o, 1, <<>>)

\* item.link.split(rootPath)[1].replace(/\/$/, '') || 'index'; UNDEFINED
\* when split gives one piece only, and replace throws a TypeError
JsonPath(link, rootPath) ==
  LET parts == Split(link, rootPath)
  IN  IF Len(parts) < 2 THEN UNDEFINED
      ELSE IF TrimSlash(parts[2]) = <<>> THEN INDEX
      ELSE TrimSlash(parts[2])

\* path.lastIndexOf('/'): the last position of "/" in s, 0 when there is none
RECURSIVE LastSlash(_, _)
LastSlash(s, i) ==
  IF i = 0 THEN 0 ELSE IF s[i] = "/" THEN i ELSE LastSlash(s, i - 1)

\* filePath of lines 375-378
JsonFilePath(path) ==
  IF Len(Split(path, SLASH)) > 1
  THEN SubSeq(path, 1, LastSlash(path, Len(path)) - 1) \o SLASH
  ELSE <<>>

\* path of the i-th item of collection ps
JsonItemPath(ps, o, i) == JsonPath(Items[ps[i]].link, JsonRootPath(Recs(ps), o))

\* `${outputDir}/${path}.md` and `${outputDir}/${filePath}`, resolved
JsonFile(ps, o, i) ==
  NormSegs(Split(JsonOutputDir(o.outputDir) \o SLASH \o JsonItemPath(ps, o, i) \o MD,
                 SLASH), <<>>)

JsonDir(ps, o, i) ==
  NormSegs(Split(JsonOutputDir(o.outputDir) \o SLASH
                   \o JsonFilePath(JsonItemPath(ps, o, i)), SLASH), <<>>)

\* the process is gone: an uncaught exception or process.exit.  What the
\* operating system still had in flight may yet be carried out; no
\* callback runs any more.
Dead == pc \in {"crashed", "exit1"}

\* a promise nobody handles rejects: the flow it carried ends, and with it,
\* on the runtimes that treat an unhandled rejection as fatal, the process
Rejected == pc' \in {"failed", "crashed"}

jsonRest == << cfgVars, pathVars, totalPages, prior, trace >>

\* the loop of lines 373-440 from item i on, up to where it next waits:
\* the operations it issues, and whether it goes on, is through or threw.
\* part_000 awaits the undefined that mkdirp returns when given a callback:
\* no operation settles between two iterations.
RECURSIVE JsonLoop(_, _, _)
JsonLoop(program, ps, i) ==
  IF i > Len(ps) THEN [ops |-> {}, to |-> "looped"]
  ELSE IF JsonItemPath(ps, opts, i) = UNDEFINED THEN [ops |-> {}, to |-> "threw"]
  ELSE IF program = "cli.js" THEN [ops |-> {Op("mkdirp", i)}, to |-> "running"]
  ELSE LET rest == JsonLoop(program, ps, i + 1)
       IN  [ops |-> {Op("mkdirp", i)} \cup rest.ops, to |-> rest.to]

\* the flow goes where the loop went
Goes(l) == IF l.to = "threw" THEN Rejected ELSE pc' = l.to

\* longest collection the older program is run on
MaxJsonItems == 2

InitJson ==
  /\ InitRun
  /\ Len(posts) <= MaxJsonItems
  /\ pin \in { [kind |-> "generateJson", program |-> g] : g \in Programs }
  /\ pout = <<>>

\* lines 325-336 (part_000: 37-62): del is called and left to itself;
\* cli.js awaits mkdirp, part_000 hands it a callback and goes on to getAll
JsonStart ==
  /\ pc = "init"
  /\ pin.kind = "generateJson"
  /\ pc' = "running"
  /\ inflight' =
       (IF opts.regenerate THEN {Op("del", 0)} ELSE {})
       \cup {Op("mkdirpOut", 0)}
       \cup (IF pin.program = "part_000" THEN {Op("page", 1)} ELSE {})
  /\ requests' = IF pin.program = "part_000" THEN << 1 >> ELSE requests
  /\ UNCHANGED << jsonRest, files, dirs, results, allPosts, fetched, outcomes,
                  faults >>

\* del settles; .catch(() => {}) drops its error
DelDone ==
  LET o == Op("del", 0) IN
  /\ o \in inflight
  /\ \E res \in Settles("ok", {"EOTHER"}) :
       /\ Charge("ok", res)
       /\ IF res = "ok"
          THEN /\ files' = FilesAfterRm(files, JsonOutDir(opts))
               /\ dirs' = DirsAfterRm(dirs, JsonOutDir(opts))
          ELSE UNCHANGED << files, dirs >>
  /\ inflight' = inflight \ {o}
  /\ UNCHANGED << jsonRest, pc, requests, results, allPosts, fetched, outcomes >>

\* mkdirp of the output directory settles.  cli.js, lines 336-358: the
\* flow goes on to getAll, or its error rejects generateJson.  part_000,
\* lines 49-51: the callback logs the error.
MkdirpOutDone ==
  LET o == Op("mkdirpOut", 0) IN
  /\ o \in inflight
  /\ \E res \in Settles("ok", {"EOTHER"}) :
       /\ Charge("ok", res)
       /\ dirs' = IF res = "ok" THEN dirs \cup Ancestors(JsonOutDir(opts)) ELSE dirs
       /\ IF Dead \/ pin.program = "part_000"
          THEN /\ inflight' = inflight \ {o}
               /\ UNCHANGED << pc, requests >>
          ELSE IF res = "ok"
               THEN /\ Await(o, Op("page", 1))
                    /\ requests' = Append(requests, 1)
                    /\ pc' = pc
               ELSE /\ inflight' = inflight \ {o}
                    /\ Rejected
                    /\ requests' = requests
  /\ UNCHANGED << jsonRest, files, results, allPosts, fetched, outcomes >>

\* the callback of getAll(...).then, lines 358-387 (part_000: 62-82), on
\* the collection ps, up to where the loop first waits
JsonThen(o, ps) ==
  /\ allPosts' = ps
  /\ fetched' = TRUE
  /\ IF Len(ps) = 0 /\ pin.program = "cli.js"
     THEN /\ pc' = "exit1"
          /\ inflight' = inflight \ {o}
     ELSE LET l == JsonLoop(pin.program, ps, 1) IN
          /\ inflight' = (inflight \ {o}) \cup l.ops
          /\ Goes(l)

\* getAll, lines 306-316: a page answers; the next page is requested when
\* the response links to one, else the collection is handed on
PageDone ==
  /\ ~Dead
  /\ \E o \in inflight :
       /\ o.op = "page"
       /\ \E res \in Settles("ok", {"neterr"}) :
            /\ Charge("ok", res)
            /\ IF res = "ok"
               THEN LET rs == results \o PageBody(posts, o.n) IN
                    /\ results' = rs
                    /\ IF o.n < NumPages(posts)
                       THEN /\ Await(o, Op("page", o.n + 1))
                            /\ requests' = Append(requests, o.n + 1)
                            /\ UNCHANGED << pc, allPosts, fetched >>
                       ELSE /\ JsonThen(o, rs)
                            /\ requests' = requests
               ELSE /\ inflight' = inflight \ {o}
                    /\ Rejected
                    /\ UNCHANGED << results, requests, allPosts, fetched >>
  /\ UNCHANGED << jsonRest, files, dirs, outcomes >>

\* mkdirp of an item's directory settles.  cli.js, lines 387-440: then()
\* issues the read and the loop goes on to the next item, or catch()
\* throws the error on.  part_000, lines 82-131: the callback logs the
\* error or issues the read.
MkdirpItemDone ==
  \E o \in inflight :
    /\ o.op = "mkdirp"
    /\ \E res \in Settles("ok", {"EOTHER"}) :
         /\ Charge("ok", res)
         /\ dirs' = IF res = "ok"
                    THEN dirs \cup Ancestors(JsonDir(allPosts, opts, o.n))
                    ELSE dirs
         /\ IF Dead
            THEN /\ inflight' = inflight \ {o}
                 /\ pc' = pc
            ELSE IF pin.program = "part_000"
                 THEN /\ inflight' = (inflight \ {o})
                           \cup (IF res = "ok" THEN {Op("read", o.n)} ELSE {})
                      /\ pc' = pc
                 ELSE IF res = "ok"
                      THEN LET l == JsonLoop(pin.program, allPosts, o.n + 1) IN
                           /\ inflight' = (inflight \ {o}) \cup {Op("read", o.n)} \cup l.ops
                           /\ Goes(l)
                      ELSE /\ inflight' = inflight \ {o}
                           /\ Rejected
    /\ UNCHANGED << jsonRest, files, requests, results, allPosts, fetched, outcomes >>

Reported(i, oc) ==
  outcomes' = Append(outcomes,
    [item |-> i, path |-> JsonFile(allPosts, opts, i), outcome |-> oc,
     prior |-> NOFILE])

\* the callback of fs.readFile, lines 390-423: no data, the file is
\* written; the same data, skipped; other data, writeFile is called with
\* 'utf8' as data and the document as encoding, which it rejects with an
\* exception nothing catches
JsonReadDone ==
  /\ ~Dead
  /\ \E o \in inflight :
       /\ o.op = "read"
       /\ LET p == JsonFile(allPosts, opts, o.n) IN
          \E res \in Settles(ReadNatural(p), {"EOTHER"}) :
            /\ Charge(ReadNatural(p), res)
            /\ IF res # "ok"
               THEN /\ Await(o, Op("write", o.n))
                    /\ UNCHANGED << pc, outcomes >>
               ELSE IF files[p] = Markdown(allPosts[o.n])
                    THEN /\ inflight' = inflight \ {o}
                         /\ Reported(o.n, "Skipped")
                         /\ pc' = pc
                    ELSE /\ inflight' = inflight \ {o}
                         /\ pc' = "crashed"
                         /\ outcomes' = outcomes
  /\ UNCHANGED << jsonRest, files, dirs, requests, results, allPosts, fetched >>

\* the callback of fs.writeFile, lines 396-402: Created is logged, or the
\* error is thrown where nothing catches it
JsonWriteDone ==
  \E o \in inflight :
    /\ o.op = "write"
    /\ LET p == JsonFile(allPosts, opts, o.n) IN
       \E res \in Settles(WriteNatural(p), {"EOTHER"}) :
         /\ Charge(WriteNatural(p), res)
         /\ files' = IF res = "ok"
                     THEN Written(files, p, Markdown(allPosts[o.n]))
                     ELSE files
         /\ inflight' = inflight \ {o}
         /\ IF Dead
            THEN UNCHANGED << pc, outcomes >>
            ELSE IF res = "ok"
                 THEN /\ Reported(o.n, "Created")
                      /\ pc' = pc
                 ELSE /\ pc' = "crashed"
                      /\ outcomes' = outcomes
    /\ UNCHANGED << jsonRest, dirs, requests, results, allPosts, fetched >>

NextJson ==
  \/ JsonStart
  \/ DelDone
  \/ MkdirpOutDone
  \/ PageDone
  \/ MkdirpItemDone
  \/ JsonReadDone
  \/ JsonWriteDone

SpecJson == InitJson /\ [][NextJson]_vars

(***************************************************************************)
(* Properties.                                                             *)
(***************************************************************************)
\* no operation of the trace met a fault: every one settled as the file
\* system and the server answer when nothing goes wrong
Clean(tr) ==
  \A k \in 1..Len(tr) :
    tr[k].res = "ok" \/ (tr[k].op = "read" /\ tr[k].res = "ENOENT")

ItemOps == {"mkdir", "read", "write", "cwrite"}
WriteOps == {"write", "cwrite"}

\* the settled operations of item i
EventsOf(i) == { k \in 1..Len(trace) : trace[k].op \in ItemOps /\ trace[k].n = i }

\* item i met no I/O error but the file-not-found of reading an absent file
ItemClean(i) ==
  \A k \in EventsOf(i) :
    trace[k].res = "ok" \/ (trace[k].op = "read" /\ trace[k].res = "ENOENT")

\* the writes of item i that were done
WritesOf(i) ==
  { k \in EventsOf(i) : trace[k].op \in WriteOps /\ trace[k].res = "ok" }

RECURSIVE SumLens(_, _)
SumLens(ps, k) == IF k = 0 THEN 0 ELSE SumLens(ps, k - 1) + Len(PageBody(ps, k))

\* C1: when the first response reports P >= 1 pages and every page answers
\* with success, getAll has requested exactly the pages 1, 2, ..., P, in
\* that order and each once, and returns the page bodies concatenated in
\* page order, each in its own order.
C1_PaginationComplete ==
  (fetched /\ ~totalPages.nan /\ totalPages.val >= 1) =>
    /\ requests = [k \in 1..totalPages.val |-> k]
    /\ allPosts = ConcatPages(posts, totalPages.val)
    /\ Len(allPosts) = SumLens(posts, totalPages.val)

\* getAll returned a collection of several pages, the first of several items
C1_Witness ==
  /\ fetched
  /\ ~totalPages.nan
  /\ totalPages.val >= 2
  /\ Len(PageBody(posts, 1)) >= 2
  /\ Len(allPosts) = Len(posts)

\* C2: an item that met no I/O error is reported Created, with one write,
\* when its file did not exist; Skipped, with no write, when its file held
\* exactly the rendered document; Updated, with one write, when its file
\* held something else; and once the item is done its file holds the
\* rendered document.
C2_Materialize ==
  \A k \in 1..Len(outcomes) :
    LET r == outcomes[k]
        doc == Markdown(allPosts[r.item])
    IN  ItemClean(r.item) =>
          /\ r.item = k
          /\ (r.prior = NOFILE) =>
               (r.outcome = "Created" /\ Cardinality(WritesOf(k)) = 1)
          /\ (r.prior = doc) =>
               (r.outcome = "Skipped" /\ WritesOf(k) = {})
          /\ (r.prior # NOFILE /\ r.prior # doc) =>
               (r.outcome = "Updated" /\ Cardinality(WritesOf(k)) = 1)
          /\ (k = Len(outcomes)) => Content(files, r.path) = doc

\* one run has created a file, updated a file and skipped a file
C2_Witness ==
  /\ \A k \in 1..Len(outcomes) : ItemClean(k)
  /\ \E a, b, c \in 1..Len(outcomes) :
       /\ outcomes[a].outcome = "Created" /\ outcomes[a].prior = NOFILE
       /\ outcomes[b].outcome = "Updated" /\ outcomes[b].prior # NOFILE
       /\ outcomes[c].outcome = "Skipped"

\* two items of the collection with one target file and different documents
Conflict(ps) ==
  \E i, j \in 1..Len(ps) :
    /\ FinalPath(ps, opts, i) = FinalPath(ps, opts, j)
    /\ Markdown(ps[i]) # Markdown(ps[j])

AllSkipped ==
  /\ \A k \in 1..Len(outcomes) : outcomes[k].outcome = "Skipped"
  /\ \A k \in 1..Len(trace) : trace[k].op \notin WriteOps

EndsWith(s, suffix) ==
  Len(s) >= Len(suffix) /\ SubSeq(s, Len(s) - Len(suffix) + 1, Len(s)) = suffix

\* the pair drawn is a root item whose link ends with its slug and "/",
\* and an item whose link is the root's link, its own slug and "/"
RootAndChild ==
  /\ pin.kind = "pair"
  /\ pout # <<>>
  /\ pin.items[1].parent = 0
  /\ EndsWith(pin.items[1].link, pin.items[1].slug \o SLASH)
  /\ pin.items[2].link = pin.items[1].link \o pin.items[2].slug \o SLASH

\* C4 as claimed: the root item resolves to index and the item below it to
\* its own slug.
C4_Original ==
  RootAndChild => (pout[1] = INDEX /\ pout[2] = pin.items[2].slug)

\* the part of the root's link before its slug
PrefixOf(it) == SubSeq(it.link, 1, Len(it.link) - Len(it.slug) - 1)

\* C4, amended: when the root's slug is not empty and occurs in the root's
\* link only at its end, and the part of the link before the slug is not
\* empty and does not occur again in the child's link, the root item
\* resolves to its own slug and the child to the root's slug, "/" and the
\* child's slug (the example resolves to hb and hb/sub-page).
C4_RootStripping ==
  (/\ RootAndChild
   /\ pin.items[1].slug # <<>>
   /\ IndexFrom(pin.items[1].link, pin.items[1].slug, 1)
        = Len(PrefixOf(pin.items[1])) + 1
   /\ PrefixOf(pin.items[1]) # <<>>
   /\ IndexFrom(pin.items[2].link, PrefixOf(pin.items[1]),
                Len(PrefixOf(pin.items[1])) + 1) = 0)
  => /\ pout[1] = pin.items[1].slug
     /\ pout[2] = pin.items[1].slug \o SLASH \o pin.items[2].slug

\* the example of the specification has been resolved
C4_Witness ==
  /\ RootAndChild
  /\ pin.items = ExamplePair
  /\ pout = << SlugRoot, SlugRoot \o SLASH \o SlugChild >>

\* the run ended on an empty collection
EmptyExit == fetched /\ Len(allPosts) = 0

\* C5 as claimed: on an empty collection the run exits with failure, writes
\* no item file and leaves what the output directory held, whatever the
\* options.
C5_Original ==
  EmptyExit =>
    /\ pc = "exit1"
    /\ files = files0
    /\ dirs = dirs0 \cup Ancestors(OutDir(opts))

\* C5, amended: on an empty collection the run exits with failure and no
\* item operation was made; without regenerate the files are those the run
\* found and only the output directory was added; with regenerate what the
\* output directory held is gone and the directory is there, empty.
C5_EmptyExit ==
  EmptyExit =>
    /\ pc = "exit1"
    /\ inflight = {}
    /\ outcomes = <<>>
    /\ \A k \in 1..Len(trace) : trace[k].op \notin ItemOps
    /\ IF opts.regenerate
       THEN /\ files = FilesAfterRm(files0, OutDir(opts))
            /\ dirs = DirsAfterRm(dirs0, OutDir(opts)) \cup Ancestors(OutDir(opts))
            /\ \A p \in DOMAIN files : ~Below(p, OutDir(opts))
       ELSE /\ files = files0
            /\ dirs = dirs0 \cup Ancestors(OutDir(opts))

\* an empty collection ended a run that found files in the output directory
C5_Witness ==
  /\ EmptyExit
  /\ pc = "exit1"
  /\ ~opts.regenerate
  /\ \E p \in DOMAIN files0 : Below(p, OutDir(opts))

\* the files in the output directory
FilesInOutDir == { p \in DOMAIN files : Below(p, OutDir(opts)) }

\* the target files of the items of the collection
Targets == { FinalPath(allPosts, opts, i) : i \in 1..Len(allPosts) }

\* C6: after a run with regenerate that completed, the files in the output
\* directory are exactly the target files of the current items.
C6_Claim ==
  (pc = "done" /\ opts.regenerate) => FilesInOutDir = Targets

\* the pages requested so far are 1, 2, ... in order, none twice
RequestsInOrder == requests = [j \in 1..Len(requests) |-> j]

\* C7: a fetch that does not answer with success, for page k, is the last
\* operation of the run: generateFiles fails, exactly the pages 1..k were
\* requested and each once, what the earlier pages held is dropped, and no
\* item operation is made, so no item file is written.
C7_FetchFailureFatal ==
  /\ RequestsInOrder
  /\ \A k \in 1..Len(trace) :
       (trace[k].op = "fetch" /\ trace[k].res # "ok") =>
         /\ k = Len(trace)
         /\ pc = "failed"
         /\ inflight = {}
         /\ Len(requests) = trace[k].n
         /\ ~fetched
         /\ allPosts = <<>>
         /\ results = <<>>
         /\ outcomes = <<>>
         /\ \A j \in 1..Len(trace) : trace[j].op \notin ItemOps
         /\ files = IF opts.regenerate
                    THEN FilesAfterRm(files0, OutDir(opts)) ELSE files0

\* the request for the second page failed after a first page with items
C7_Witness ==
  /\ pc = "failed"
  /\ trace # <<>>
  /\ trace[Len(trace)] = Ev("fetch", 2, "notok")
  /\ Len(PageBody(posts, 1)) >= 1
  /\ requests = << 1, 2 >>

\* every item done so far that no later item done overwrote has left its
\* document in its file
LeftAsWritten ==
  \A k \in 1..Len(outcomes) :
    (\A j \in (k + 1)..Len(outcomes) : outcomes[j].path # outcomes[k].path)
      => Content(files, outcomes[k].path) = Markdown(allPosts[k])

\* C8: an error other than file-not-found in the mkdir, the read or a write
\* of item i is the last operation of the run: generateFiles fails with it,
\* no operation is made for a later item, and the files of the items before
\* i stay as written.
C8_FileErrorFatal ==
  \A k \in 1..Len(trace) :
    (trace[k].op \in ItemOps /\ trace[k].res \notin {"ok", "ENOENT"}) =>
      /\ k = Len(trace)
      /\ pc = "failed"
      /\ inflight = {}
      /\ Len(outcomes) = trace[k].n - 1
      /\ \A j \in 1..Len(trace) : trace[j].op \in ItemOps => trace[j].n <= trace[k].n
      /\ LeftAsWritten

\* a later item failed with such an error after an earlier item was written
C8_Witness ==
  /\ pc = "failed"
  /\ trace # <<>>
  /\ trace[Len(trace)].op \in ItemOps
  /\ trace[Len(trace)].res = "EOTHER"
  /\ trace[Len(trace)].n >= 2
  /\ outcomes # <<>>
  /\ outcomes[1].outcome = "Created"
  /\ Content(files, outcomes[1].path) = Markdown(allPosts[1])

\* C9: at most one operation is in flight; page N + 1 is requested only
\* after page N answered; and an operation of item i + 1 is in flight only
\* when the items 1..i are done, in collection order.
C9_Sequential ==
  /\ Cardinality(inflight) <= 1
  /\ RequestsInOrder
  /\ \A n \in 2..Len(requests) :
       \E k \in 1..Len(trace) : trace[k] = Ev("fetch", n - 1, "ok")
  /\ \A o \in inflight :
       o.op \in ItemOps =>
         /\ o.n = Len(outcomes) + 1
         /\ \A k \in 1..Len(trace) : trace[k].op \in ItemOps => trace[k].n <= o.n
  /\ \A k \in 1..Len(outcomes) : outcomes[k].item = k

\* an operation of the second item is in flight after a second page
C9_Witness ==
  /\ Len(requests) >= 2
  /\ \E o \in inflight : o.op \in {"read", "write", "cwrite"} /\ o.n = 2
  /\ opts.regenerate

IsPrefix(pre, s) == Len(pre) <= Len(s) /\ SubSeq(s, 1, Len(pre)) = pre

OrIndex(s) == IF s = <<>> THEN INDEX ELSE s

\* the resolved path as the claim states it
ClaimedPath(link, slug, rootPath) ==
  IF IsPrefix(rootPath, link)
  THEN OrIndex(TrimSlash(SubSeq(link, Len(rootPath) + 1, Len(link))))
  ELSE OrIndex(TrimSlash(slug))

\* C10: the resolved path is the link without its rootPath prefix, or the
\* slug when rootPath is no prefix of the link, one trailing "/" trimmed,
\* and index when that is empty.
C10_Claim ==
  (pin.kind = "item" /\ pout # <<>>) =>
    pout[1] = ClaimedPath(pin.link, pin.slug, pin.rootPath)

\* the mapped value of the first key, in the mapping's order, that occurs
\* in the class attribute; nothing when none occurs
RECURSIVE FirstMatch(_, _)
FirstMatch(classList, k) ==
  IF k > Len(codeLanguages) THEN <<>>
  ELSE IF Includes(classList, codeLanguages[k].key) THEN codeLanguages[k].value
  ELSE FirstMatch(classList, k + 1)

\* C11: the language tag of a code block is the mapped value of the first
\* key of the mapping, in the order css, bash, php, yaml, xml, jscript, that
\* occurs in the class attribute, and there is no tag when no key occurs.
C11_Claim ==
  (pin.kind = "element" /\ Len(pout) = 2) =>
    pout[2] = FirstMatch(pin.class, 1)

\* the operations after the output directory is there
LaterOps == {"fetch", "json"} \cup ItemOps

\* C12: a failure of the creation of the output directory is the last
\* operation of the run: generateFiles fails with it, no page is requested,
\* no collection is received, no item is reported and no file is read or
\* written.
C12_MkdirFailureFatal ==
  \A k \in 1..Len(trace) :
    (trace[k].op = "mkdirOut" /\ trace[k].res # "ok") =>
      /\ k = Len(trace)
      /\ pc = "failed"
      /\ inflight = {}
      /\ requests = <<>>
      /\ ~fetched
      /\ allPosts = <<>>
      /\ outcomes = <<>>
      /\ \A j \in 1..Len(trace) : trace[j].op \notin LaterOps
      /\ files = IF opts.regenerate
                 THEN FilesAfterRm(files0, OutDir(opts)) ELSE files0

\* the creation of the output directory failed for a collection with items
C12_Witness ==
  /\ pc = "failed"
  /\ trace # <<>>
  /\ trace[Len(trace)].op = "mkdirOut"
  /\ trace[Len(trace)].res = "EOTHER"
  /\ Len(posts) >= 2
  /\ ~opts.regenerate

\* the target files of the items of the remote collection
TargetsOf(ps) == { FinalPath(ps, opts, i) : i \in 1..Len(ps) }

\* C13: in a run without regenerate no file is ever deleted, and a file of
\* the output directory that is not the target file of an item of the
\* collection is, in every state of the run, as it was before the run:
\* there or not there, with the same content.
C13_NoStrayChange ==
  ~opts.regenerate =>
    LET targets == TargetsOf(posts) IN
    /\ DOMAIN files0 \subseteq DOMAIN files
    /\ \A p \in DOMAIN files \cup DOMAIN files0 :
         (Content(files, p) # Content(files0, p) /\ Below(p, OutDir(opts))) =>
           p \in targets

\* a run without regenerate wrote an item file next to a file of no item
C13_Witness ==
  /\ ~opts.regenerate
  /\ pc = "done"
  /\ OldFile \in DOMAIN files0
  /\ OldFile \notin TargetsOf(posts)
  /\ files[OldFile] = STALE
  /\ \E k \in 1..Len(outcomes) : outcomes[k].outcome \in {"Created", "Updated"}

\* the phase an operation belongs to: 1 Cleared, 2 DirectoryEnsured,
\* 3 Fetched, 4 the loop over the items
PhaseOf(kind) ==
  IF kind = "rm" THEN 1
  ELSE IF kind = "mkdirOut" THEN 2
  ELSE IF kind \in {"fetch", "json"} THEN 3
  ELSE 4

\* the positions of the trace at which an operation of the given kind settled
Settled(kind) == { k \in 1..Len(trace) : trace[k].op = kind }

\* C14: the operations of a run settle in the order of the phases Cleared
\* (only with regenerate, and then first), DirectoryEnsured, Fetched, the
\* loop over the items, none of the first two phases twice and none
\* revisited; the directory is removed before it is ensured, it is ensured
\* before the first page is requested, every page requested has answered
\* before the first item operation is issued, and the run is done only
\* when every item is.
C14_PhaseOrder ==
  /\ \A k \in 1..(Len(trace) - 1) :
       PhaseOf(trace[k].op) <= PhaseOf(trace[k + 1].op)
  /\ \A o \in inflight : \A k \in 1..Len(trace) :
       PhaseOf(trace[k].op) <= PhaseOf(o.op)
  /\ Cardinality(Settled("rm")) <= 1
  /\ Cardinality(Settled("mkdirOut")) <= 1
  /\ ~opts.regenerate => (Settled("rm") = {} /\ Op("rm", 0) \notin inflight)
  /\ (opts.regenerate /\ (Settled("mkdirOut") # {} \/ Op("mkdirOut", 0) \in inflight))
       => (trace # <<>> /\ trace[1] = Ev("rm", 0, "ok"))
  /\ requests # <<>> => \E k \in Settled("mkdirOut") : trace[k].res = "ok"
  /\ ((\E k \in 1..Len(trace) : trace[k].op \in ItemOps)
        \/ (\E o \in inflight : o.op \in ItemOps))
       => /\ fetched
          /\ \A n \in 1..Len(requests) :
               \E k \in 1..Len(trace) : trace[k] = Ev("json", n, "ok")
  /\ pc = "done" =>
       (fetched /\ inflight = {} /\ Len(outcomes) = Len(allPosts))

\* a run with regenerate went through every phase, with several pages and
\* several items
C14_Witness ==
  /\ pc = "done"
  /\ opts.regenerate
  /\ Len(requests) >= 2
  /\ Len(outcomes) >= 2
  /\ trace[1] = Ev("rm", 0, "ok")

\* the writes of item i attempted so far: settled, however, or in flight
WriteAttempts(i) ==
  Cardinality({ k \in EventsOf(i) : trace[k].op \in WriteOps })
  + Cardinality({ o \in inflight : o.op \in WriteOps /\ o.n = i })

\* C15: an item is reported Created only when the read of its file failed
\* with file-not-found; a file-not-found error of the item's mkdir or of a
\* write is the last operation of the run, which fails with it; and at most
\* one write is attempted per item.
C15_Claim ==
  /\ \A k \in 1..Len(outcomes) :
       outcomes[k].outcome = "Created" =>
         \E j \in 1..Len(trace) : trace[j] = Ev("read", k, "ENOENT")
  /\ \A k \in 1..Len(trace) :
       (trace[k].op \in {"mkdir", "write", "cwrite"} /\ trace[k].res = "ENOENT") =>
         (k = Len(trace) /\ pc = "failed")
  /\ \A i \in 1..Len(allPosts) : WriteAttempts(i) <= 1

\* C16: after a run that completed, every target file exists and holds the
\* rendered document of the last item of the collection that resolves to
\* it; the document of an earlier item with the same path is gone.
C16_LastWins ==
  pc = "done" =>
    LET fp == [i \in 1..Len(allPosts) |-> FinalPath(allPosts, opts, i)] IN
    \A i \in 1..Len(allPosts) :
      LET last == CHOOSE j \in i..Len(allPosts) :
                    /\ fp[j] = fp[i]
                    /\ \A k \in (j + 1)..Len(allPosts) : fp[k] # fp[i]
      IN  /\ fp[i] \in DOMAIN files
          /\ files[fp[i]] = Markdown(allPosts[last])
          /\ Markdown(allPosts[i]) # Markdown(allPosts[last])
               => files[fp[i]] # Markdown(allPosts[i])

\* a run completed on a collection with two items of one path and
\* different documents, and an item after them
C16_Witness ==
  /\ pc = "done"
  /\ \E i, j \in 1..Len(allPosts) :
       /\ i < j
       /\ FinalPath(allPosts, opts, i) = FinalPath(allPosts, opts, j)
       /\ Markdown(allPosts[i]) # Markdown(allPosts[j])
       /\ files[FinalPath(allPosts, opts, j)] = Markdown(allPosts[j])
       /\ outcomes[i].outcome = "Created"
       /\ outcomes[j].outcome = "Updated"

\* C17: for every element, by node name and class attribute, at most one
\* of the filters of the rules glossary, code-trigger-anchor, dt-to-strong
\* and precode to code accepts it.
C17_Claim ==
  (pin.kind = "element" /\ pout # <<>>) => Cardinality(pout[1]) <= 1

\* the first item, in received order, whose parent is 0; 0 when none is
RECURSIVE FirstRoot(_, _)
FirstRoot(its, i) ==
  IF i > Len(its) THEN 0
  ELSE IF its[i].parent = 0 THEN i
  ELSE FirstRoot(its, i + 1)

\* the link of an item without its final slug and "/"
WithoutSlugSuffix(it) == SubSeq(it.link, 1, Len(it.link) - Len(it.slug) - 1)

\* C18: rootPath is the link of the first item, in received order, whose
\* parent is 0, with its slug suffix removed, wherever else the slug occurs
\* in the link, whatever the items after it; and it is
\* https://{subdomain}wordpress.org/{team}{handbook}/ when no item has
\* parent 0.
C18_Claim ==
  (pin.kind = "collection" /\ pout # <<>>) =>
    LET r == FirstRoot(pin.items, 1)
    IN  IF r # 0 THEN pout[1] = WithoutSlugSuffix(pin.items[r])
        ELSE pout[1] = HTTPS \o NormSubdomain(opts.subdomain) \o WPORG
                         \o NormTeam(opts.team) \o NormHandbook(opts.handbook)
                         \o SLASH

JsonItemOps == {"mkdirp", "read", "write"}

\* C19: generateJson with regenerate: while the removal of the output
\* directory has not completed, the output directory is not yet ensured and
\* no item operation is in flight or done; and a file the run reported
\* Created is there, not deleted by the removal.
C19_Claim ==
  (pin.kind = "generateJson" /\ opts.regenerate) =>
    /\ Op("del", 0) \in inflight =>
         /\ Op("mkdirpOut", 0) \in inflight
         /\ \A o \in inflight : o.op \notin JsonItemOps
         /\ outcomes = <<>>
    /\ \A k \in 1..Len(outcomes) :
         outcomes[k].outcome = "Created" => outcomes[k].path \in DOMAIN files

\* the last item of the collection whose file is p
JsonLastAt(p) ==
  CHOOSE i \in 1..Len(allPosts) :
    /\ JsonFile(allPosts, opts, i) = p
    /\ \A j \in (i + 1)..Len(allPosts) : JsonFile(allPosts, opts, j) # p

\* C20: generateJson: while the read or the write of an item's file is in
\* flight, no directory creation, read or write of a later item is; and
\* when the run is through and nothing is in flight, every item's file
\* holds the document of the last item of that path.
C20_Claim ==
  pin.kind = "generateJson" =>
    /\ \A o1, o2 \in inflight :
         (o1.op \in {"read", "write"} /\ o2.op \in JsonItemOps) => o2.n <= o1.n
    /\ (pc = "looped" /\ inflight = {}) =>
         \A i \in 1..Len(allPosts) :
           LET p == JsonFile(allPosts, opts, i)
           IN  Content(files, p) = Markdown(allPosts[JsonLastAt(p)])

\* the items the loop has issued an operation for
ItemsTouched ==
  { o.n : o \in { x \in inflight : x.op \in ItemOps } }
  \cup { trace[k].n : k \in { j \in 1..Len(trace) : trace[j].op \in ItemOps } }

\* C21: every file the loop reads, creates or overwrites lies below the
\* output directory, and every directory it creates is the output
\* directory or lies below it.
C21_Claim ==
  \A i \in ItemsTouched :
    /\ Below(FinalPath(allPosts, opts, i), OutDir(opts))
    /\ \/ DirForFile(allPosts, opts, i) = OutDir(opts)
       \/ Below(DirForFile(allPosts, opts, i), OutDir(opts))

====
